---------------------------- MODULE Spec2Model ----------------------------
(***************************************************************************)
(* A model of the TCP echo server of src/src/server.rs (Server, Client)    *)
(* together with the test client of src/tests/client.rs and the harness of *)
(* src/tests/client_test.rs.                                               *)
(*                                                                         *)
(* Sockets are byte streams: what a peer writes is appended to the bytes   *)
(* in flight and a read takes every byte that is available, up to the size *)
(* of the reader's buffer.  Messages are modelled at the level of the      *)
(* protobuf wire format that prost produces, because the server decodes    *)
(* the bytes of a ClientMessage as a bare EchoMessage and the client       *)
(* decodes the bytes the server wrote as a ServerMessage.                  *)
(***************************************************************************)
EXTENDS Naturals, Sequences, FiniteSets, TLC

(***************************************************************************)
(* Bounds of the model.                                                    *)
(***************************************************************************)
MaxConns == 2

MaxSends == 2

MaxEvents == 4

MaxStops == 2

MaxRetries == 3

MaxCalls == 2

(***************************************************************************)
(* Program constants.                                                      *)
(***************************************************************************)
BufSize == 4096

RecursionLimit == 100

\* The max_clients the tests construct their server with.
TestMaxClients == 10000

Conns == 1..MaxConns

(***************************************************************************)
(* The wire format (prost's encoding of messages.proto, which is not among *)
(* the source files: field numbers as the tests' round trips require).     *)
(*   EchoMessage   { string content = 1; }                                 *)
(*   AddRequest    { int32 a = 1; int32 b = 2; }                           *)
(*   AddResponse   { int32 result = 1; }                                   *)
(*   ClientMessage { oneof message { EchoMessage echo_message = 1;         *)
(*                                   AddRequest add_request = 2; } }       *)
(*   ServerMessage { oneof message { EchoMessage echo_message = 1;         *)
(*                                   AddResponse add_response = 2; } }     *)
(***************************************************************************)
WtVarint == 0

WtFixed64 == 1

WtLen == 2

WtStartGroup == 3

WtEndGroup == 4

WtFixed32 == 5

Min(a, b) == IF a < b THEN a ELSE b

Drop(bs, n) == SubSeq(bs, n + 1, Len(bs))

Take(bs, n) == SubSeq(bs, 1, n)

RECURSIVE EncodeVarint(_)
EncodeVarint(n) ==
    IF n < 128 THEN <<n>>
    ELSE <<128 + (n % 128)>> \o EncodeVarint(n \div 128)

\* [ok, val, rest]: a varint read from the front of bs.  prost reads up to 10
\* bytes (64 bits); the model's integers have 32 bits, so a varint of more than
\* 4 bytes (28 bits), which no input of the model holds, is an error here.
RECURSIVE DecodeVarintFrom(_, _, _, _)
DecodeVarintFrom(bs, acc, mult, count) ==
    IF bs = <<>> \/ count = 4 THEN [ok |-> FALSE, val |-> 0, rest |-> bs]
    ELSE IF bs[1] < 128
         THEN [ok |-> TRUE, val |-> acc + bs[1] * mult, rest |-> Tail(bs)]
         ELSE DecodeVarintFrom(Tail(bs), acc + (bs[1] - 128) * mult,
                               mult * 128, count + 1)

DecodeVarint(bs) == DecodeVarintFrom(bs, 0, 1, 0)

\* [ok, tag, wt, rest]: a field key; wire types 6 and 7 and tag 0 are errors.
DecodeKey(bs) ==
    LET v == DecodeVarint(bs) IN
    IF ~v.ok \/ (v.val % 8) > 5 \/ (v.val \div 8) = 0
    THEN [ok |-> FALSE, tag |-> 0, wt |-> 0, rest |-> bs]
    ELSE [ok |-> TRUE, tag |-> v.val \div 8, wt |-> v.val % 8, rest |-> v.rest]

\* UTF-8 validity of a byte string (one- and two-byte forms; a byte of a
\* longer form, or one that starts no form, makes the string invalid here:
\* the model's inputs use no three- or four-byte characters).
RECURSIVE IsUtf8(_)
IsUtf8(bs) ==
    IF bs = <<>> THEN TRUE
    ELSE IF bs[1] < 128 THEN IsUtf8(Tail(bs))
    ELSE IF bs[1] >= 194 /\ bs[1] <= 223 /\ Len(bs) >= 2
            /\ bs[2] >= 128 /\ bs[2] <= 191
         THEN IsUtf8(Drop(bs, 2))
    ELSE FALSE

\* [ok, rest]: skip one field of wire type wt (prost::encoding::skip_field).
RECURSIVE SkipField(_, _, _, _)
RECURSIVE SkipGroup(_, _, _)
SkipField(wt, tag, bs, depth) ==
    CASE wt = WtVarint ->
            LET v == DecodeVarint(bs) IN [ok |-> v.ok, rest |-> v.rest]
      [] wt = WtFixed64 ->
            IF Len(bs) < 8 THEN [ok |-> FALSE, rest |-> bs]
            ELSE [ok |-> TRUE, rest |-> Drop(bs, 8)]
      [] wt = WtFixed32 ->
            IF Len(bs) < 4 THEN [ok |-> FALSE, rest |-> bs]
            ELSE [ok |-> TRUE, rest |-> Drop(bs, 4)]
      [] wt = WtLen ->
            LET v == DecodeVarint(bs) IN
            IF ~v.ok \/ v.val > Len(v.rest) THEN [ok |-> FALSE, rest |-> bs]
            ELSE [ok |-> TRUE, rest |-> Drop(v.rest, v.val)]
      [] wt = WtStartGroup ->
            IF depth = 0 THEN [ok |-> FALSE, rest |-> bs]
            ELSE SkipGroup(tag, bs, depth - 1)
      [] OTHER -> [ok |-> FALSE, rest |-> bs]

SkipGroup(tag, bs, depth) ==
    LET k == DecodeKey(bs) IN
    IF ~k.ok THEN [ok |-> FALSE, rest |-> bs]
    ELSE IF k.wt = WtEndGroup
         THEN [ok |-> k.tag = tag, rest |-> k.rest]
         ELSE LET s == SkipField(k.wt, k.tag, k.rest, depth) IN
              IF ~s.ok THEN s ELSE SkipGroup(tag, s.rest, depth)

\* [ok, val, rest]: a length-delimited value.
DecodeLen(bs) ==
    LET v == DecodeVarint(bs) IN
    IF ~v.ok \/ v.val > Len(v.rest)
    THEN [ok |-> FALSE, val |-> <<>>, rest |-> bs]
    ELSE [ok |-> TRUE, val |-> Take(v.rest, v.val), rest |-> Drop(v.rest, v.val)]

\* EchoMessage::merge: [ok, content], starting from content cur.
RECURSIVE MergeEcho(_, _, _)
MergeEcho(cur, bs, depth) ==
    IF bs = <<>> THEN [ok |-> TRUE, content |-> cur]
    ELSE LET k == DecodeKey(bs) IN
         IF ~k.ok THEN [ok |-> FALSE, content |-> cur]
         ELSE IF k.tag = 1
              THEN LET l == DecodeLen(k.rest) IN
                   IF k.wt # WtLen \/ ~l.ok \/ ~IsUtf8(l.val)
                   THEN [ok |-> FALSE, content |-> cur]
                   ELSE MergeEcho(l.val, l.rest, depth)
              ELSE LET s == SkipField(k.wt, k.tag, k.rest, depth) IN
                   IF ~s.ok THEN [ok |-> FALSE, content |-> cur]
                   ELSE MergeEcho(cur, s.rest, depth)

\* EchoMessage::decode
DecodeEchoMessage(bs) == MergeEcho(<<>>, bs, RecursionLimit)

\* EchoMessage::encode_to_vec: proto3 leaves a default (empty) string out.
EncodeEchoMessage(content) ==
    IF content = <<>> THEN <<>>
    ELSE <<8 * 1 + WtLen>> \o EncodeVarint(Len(content)) \o content

\* AddRequest's encoding, for a, b >= 0: a zero field is left out.
EncodeAddRequest(a, b) ==
    (IF a = 0 THEN <<>> ELSE <<8 * 1 + WtVarint>> \o EncodeVarint(a))
    \o (IF b = 0 THEN <<>> ELSE <<8 * 2 + WtVarint>> \o EncodeVarint(b))

EchoMsg(s) == [kind |-> "Echo", content |-> s, a |-> 0, b |-> 0]

AddMsg(x, y) == [kind |-> "Add", content |-> <<>>, a |-> x, b |-> y]

\* client_message::Message::encode: the oneof's field is always written.
EncodeClientMessage(m) ==
    LET inner == IF m.kind = "Echo" THEN EncodeEchoMessage(m.content)
                 ELSE EncodeAddRequest(m.a, m.b)
        tag == IF m.kind = "Echo" THEN 1 ELSE 2
    IN <<8 * tag + WtLen>> \o EncodeVarint(Len(inner)) \o inner

\* AddResponse::merge: [ok, result], starting from result cur (an int32; the
\* model's varints are below 2^28, so the cast to 32 bits changes nothing).
RECURSIVE MergeAddResponse(_, _, _)
MergeAddResponse(cur, bs, depth) ==
    IF bs = <<>> THEN [ok |-> TRUE, result |-> cur]
    ELSE LET k == DecodeKey(bs) IN
         IF ~k.ok THEN [ok |-> FALSE, result |-> cur]
         ELSE IF k.tag = 1
              THEN LET v == DecodeVarint(k.rest) IN
                   IF k.wt # WtVarint \/ ~v.ok
                   THEN [ok |-> FALSE, result |-> cur]
                   ELSE MergeAddResponse(v.val, v.rest, depth)
              ELSE LET s == SkipField(k.wt, k.tag, k.rest, depth) IN
                   IF ~s.ok THEN [ok |-> FALSE, result |-> cur]
                   ELSE MergeAddResponse(cur, s.rest, depth)

NoMessage == [ok |-> TRUE, kind |-> "None", content |-> <<>>, result |-> 0]

DecodeError == [ok |-> FALSE, kind |-> "None", content |-> <<>>, result |-> 0]

EchoResponse(s) == [ok |-> TRUE, kind |-> "Echo", content |-> s, result |-> 0]

AddResponse(r) == [ok |-> TRUE, kind |-> "AddResponse", content |-> <<>>, result |-> r]

\* ServerMessage::merge: a oneof field met again merges into the variant that
\* is already there, and replaces a variant of the other kind.
RECURSIVE MergeServerMessage(_, _, _)
MergeServerMessage(cur, bs, depth) ==
    IF bs = <<>> THEN cur
    ELSE LET k == DecodeKey(bs) IN
         IF ~k.ok THEN DecodeError
         ELSE IF k.tag \in {1, 2}
              THEN LET l == DecodeLen(k.rest) IN
                   IF k.wt # WtLen \/ depth = 0 \/ ~l.ok THEN DecodeError
                   ELSE IF k.tag = 1
                        THEN LET e == MergeEcho(IF cur.kind = "Echo" THEN cur.content
                                                ELSE <<>>, l.val, depth - 1) IN
                             IF ~e.ok THEN DecodeError
                             ELSE MergeServerMessage(EchoResponse(e.content),
                                                     l.rest, depth)
                        ELSE LET r == MergeAddResponse(IF cur.kind = "AddResponse"
                                                       THEN cur.result ELSE 0,
                                                       l.val, depth - 1) IN
                             IF ~r.ok THEN DecodeError
                             ELSE MergeServerMessage(AddResponse(r.result),
                                                     l.rest, depth)
              ELSE LET s == SkipField(k.wt, k.tag, k.rest, depth) IN
                   IF ~s.ok THEN DecodeError
                   ELSE MergeServerMessage(cur, s.rest, depth)

\* ServerMessage::decode
DecodeServerMessage(bs) == MergeServerMessage(NoMessage, bs, RecursionLimit)


(***************************************************************************)
(* The inputs of the model.                                                *)
(***************************************************************************)
RawMsg(bs) == [kind |-> "Raw", content |-> bs, a |-> 0, b |-> 0]

\* The contents the clients echo: the empty string, "A" and "B".
Contents == {<<>>, <<65>>, <<66>>}

\* What client.rs's send() is given: the two request kinds of the oneof.
ClientMessages == {EchoMsg(s) : s \in Contents} \cup {AddMsg(10, 20)}

\* Bytes of a peer that does not speak the protocol: a field whose length
\* runs past the end of the read.
Malformed == {<<10, 5, 65>>}

\* The bytes one send puts on the wire.
WireBytes(m) == IF m.kind = "Raw" THEN m.content ELSE EncodeClientMessage(m)

(***************************************************************************)
(* The state.                                                              *)
(***************************************************************************)
VARIABLES
    max_clients,  \* Server.max_clients, as given to Server::new
    is_running,   \* Server.is_running, the flag behind Arc<Mutex<bool>>
    workers,      \* Server.workers: the retained handles, by connection
    runPc,        \* where run() is: "idle", "check", "accept", "returned"
    joinPc,       \* where join_workers() is: "idle", "joining"
    backlog,      \* connections the listener holds, not yet accepted
    cstate,       \* per connection: "new", "open", "closed" (the client shut
                  \* it down), "reset" (the connection broke)
    inbuf,        \* per connection: bytes in flight to the server
    outbuf,       \* per connection: bytes in flight to the client
    hpc,          \* per connection, Client::handle: "none", "read", "write",
                  \* "ok" (returned Ok), "err" (returned Err)
    pending,      \* per connection: the payload handle() is about to write
    sent,         \* history: what the client sent on each connection
    reads,        \* history: the chunks handle() read from each connection
    wrote,        \* history: the payloads handle() wrote to each connection
    recvd,        \* history: what the client's reads decoded to
    stopCalls,    \* history: the number of calls of stop() so far
    joinSet,      \* history: the handles retained when join_workers() began
    guard,        \* harness: who holds the Mutex<Server>: "none", "server", "test"
    spc,          \* harness: the server thread of setup_server_thread
    tpc,          \* harness: the test thread
    rxStream,     \* test client: Client.stream, "none" or "some"
    rxPc,         \* receive_with_retry: "idle", "loop", "done" (it returned)
    rxRetries,    \* receive_with_retry: its argument retries
    rxAttempts,   \* receive_with_retry: the reads made in this call
    rxErrs,       \* receive_with_retry: the reads of this call that failed
    rxLast,       \* receive_with_retry: how the last read ended: "none",
                  \* "err", "zero", "data"
    rxData,       \* receive_with_retry: the bytes of the read that returned data
    rxResult,     \* receive_with_retry: what the call returned
    rxCalls       \* history: the number of calls of receive_with_retry

serverVars == <<max_clients, is_running, workers, runPc, joinPc>>

netVars == <<backlog, cstate, inbuf, outbuf>>

handlerVars == <<hpc, pending>>

histVars == <<sent, reads, wrote, recvd, stopCalls, joinSet>>

harnessVars == <<guard, spc, tpc>>

recvVars == <<rxStream, rxPc, rxRetries, rxAttempts, rxErrs, rxLast, rxData,
              rxResult, rxCalls>>

vars == <<serverVars, netVars, handlerVars, histVars, harnessVars, recvVars>>

Done == {"ok", "err"}

RECURSIVE SumLen(_, _)
SumLen(f, n) == IF n = 0 THEN 0 ELSE Len(f[n]) + SumLen(f, n - 1)

TotalSent == SumLen(sent, MaxConns)

\* The clients' events so far: connections made, sends, connections ended.
Events ==
    Cardinality({c \in Conns : cstate[c] # "new"}) + TotalSent
    + Cardinality({c \in Conns : cstate[c] \in {"closed", "reset"}})

\* Server::new: the listener is bound, the flag is true, no handle is retained.
ServerNew ==
    /\ is_running = TRUE
    /\ workers = <<>>
    /\ runPc = "idle"
    /\ joinPc = "idle"
    /\ backlog = <<>>

NoTraffic ==
    /\ cstate = [c \in Conns |-> "new"]
    /\ inbuf = [c \in Conns |-> <<>>]
    /\ outbuf = [c \in Conns |-> <<>>]
    /\ hpc = [c \in Conns |-> "none"]
    /\ pending = [c \in Conns |-> <<>>]
    /\ sent = [c \in Conns |-> <<>>]
    /\ reads = [c \in Conns |-> <<>>]
    /\ wrote = [c \in Conns |-> <<>>]
    /\ recvd = [c \in Conns |-> <<>>]
    /\ stopCalls = 0
    /\ joinSet = {}

\* No result of receive_with_retry.
RxNone == [kind |-> "None", msg |-> NoMessage]

\* client::Client::new: no stream; no call of receive_with_retry yet.
RecvNew ==
    /\ rxStream = "none"
    /\ rxPc = "idle"
    /\ rxRetries = 0
    /\ rxAttempts = 0
    /\ rxErrs = 0
    /\ rxLast = "none"
    /\ rxData = <<>>
    /\ rxResult = RxNone
    /\ rxCalls = 0

\* The server as the tests construct it.  max_clients is stored by Server::new
\* and used nowhere else, so its value makes no difference to what follows.
Init ==
    /\ max_clients = TestMaxClients
    /\ ServerNew
    /\ NoTraffic
    /\ guard = "none"
    /\ spc = "off"
    /\ tpc = "off"
    /\ RecvNew

(***************************************************************************)
(* The clients (src/tests/client.rs) and the network.                      *)
(***************************************************************************)
\* Client::connect: the listener is bound, so the connection is established
\* and waits in the listener's queue.  Connections are taken in order.
ClientConnect(c) ==
    /\ cstate[c] = "new"
    /\ Events < MaxEvents
    /\ \A d \in Conns : d < c => cstate[d] # "new"
    /\ cstate' = [cstate EXCEPT ![c] = "open"]
    /\ backlog' = Append(backlog, c)
    /\ UNCHANGED <<recvVars, serverVars, inbuf, outbuf, handlerVars, histVars, harnessVars>>

\* One write_all of the bytes of m by the peer of connection c.
PutOnWire(c, m) ==
    /\ cstate[c] = "open"
    /\ TotalSent < MaxSends
    /\ Events < MaxEvents
    /\ inbuf' = [inbuf EXCEPT ![c] = @ \o WireBytes(m)]
    /\ sent' = [sent EXCEPT ![c] = Append(@, m)]
    /\ UNCHANGED <<recvVars, serverVars, backlog, cstate, outbuf, handlerVars,
                   reads, wrote, recvd, stopCalls, joinSet, harnessVars>>

\* Client::send
ClientSend(c) == \E m \in ClientMessages : PutOnWire(c, m)

\* A peer that writes bytes that are no message.
PeerSendRaw(c) == \E bs \in Malformed : PutOnWire(c, RawMsg(bs))

\* Client::receive_with_retry, a read that returns data: every byte available,
\* up to the 4096 of the buffer, decoded as one ServerMessage.
ClientRecv(c) ==
    /\ cstate[c] = "open"
    /\ outbuf[c] # <<>>
    /\ LET n == Min(BufSize, Len(outbuf[c])) IN
       /\ recvd' = [recvd EXCEPT ![c] = Append(@, DecodeServerMessage(Take(outbuf[c], n)))]
       /\ outbuf' = [outbuf EXCEPT ![c] = Drop(@, n)]
    /\ UNCHANGED <<recvVars, serverVars, backlog, cstate, inbuf, handlerVars,
                   sent, reads, wrote, stopCalls, joinSet, harnessVars>>

\* Client::disconnect: shutdown(Both); what the server has sent is dropped,
\* what the client has sent can still be read by the server.
ClientDisconnect(c) ==
    /\ cstate[c] = "open"
    /\ Events < MaxEvents
    /\ cstate' = [cstate EXCEPT ![c] = "closed"]
    /\ outbuf' = [outbuf EXCEPT ![c] = <<>>]
    /\ UNCHANGED <<recvVars, serverVars, backlog, inbuf, handlerVars, histVars, harnessVars>>

\* The connection breaks (a reset): the bytes in flight are lost and the
\* server's next read or write on it fails.
ConnReset(c) ==
    /\ cstate[c] \in {"open", "closed"}
    /\ cstate[c] = "open" => Events < MaxEvents
    /\ cstate' = [cstate EXCEPT ![c] = "reset"]
    /\ inbuf' = [inbuf EXCEPT ![c] = <<>>]
    /\ outbuf' = [outbuf EXCEPT ![c] = <<>>]
    /\ UNCHANGED <<recvVars, serverVars, backlog, handlerVars, histVars, harnessVars>>


(***************************************************************************)
(* Client::handle (src/src/server.rs), one handler per accepted connection.*)
(***************************************************************************)
\* What handle() answers to the bytes of one read that decode: the decoded
\* EchoMessage, encoded again.
ResponseTo(chunk) == EncodeEchoMessage(DecodeEchoMessage(chunk).content)

\* HandlerReadData with the next read made while the response to the last
\* message is still to be written.
HandlerReadDataPipelined(c) ==
    /\ hpc[c] \in {"read", "write"}
    /\ cstate[c] # "reset"
    /\ inbuf[c] # <<>>
    /\ LET n == Min(BufSize, Len(inbuf[c]))
           chunk == Take(inbuf[c], n)
       IN /\ inbuf' = [inbuf EXCEPT ![c] = Drop(@, n)]
          /\ reads' = [reads EXCEPT ![c] = Append(@, chunk)]
          /\ IF DecodeEchoMessage(chunk).ok
             THEN /\ hpc' = [hpc EXCEPT ![c] = "write"]
                  /\ pending' = [pending EXCEPT ![c] = ResponseTo(chunk)]
             ELSE UNCHANGED <<hpc, pending>>
    /\ UNCHANGED <<recvVars, serverVars, backlog, cstate, outbuf,
                   sent, wrote, recvd, stopCalls, joinSet, harnessVars>>

\* read() returns data: the bytes are decoded as an EchoMessage; on success
\* the response is due, on failure the loop goes on to the next read.
HandlerReadData(c) ==
    /\ hpc[c] = "read"
    /\ cstate[c] # "reset"
    /\ inbuf[c] # <<>>
    /\ LET n == Min(BufSize, Len(inbuf[c]))
           chunk == Take(inbuf[c], n)
       IN /\ inbuf' = [inbuf EXCEPT ![c] = Drop(@, n)]
          /\ reads' = [reads EXCEPT ![c] = Append(@, chunk)]
          /\ IF DecodeEchoMessage(chunk).ok
             THEN /\ hpc' = [hpc EXCEPT ![c] = "write"]
                  /\ pending' = [pending EXCEPT ![c] = ResponseTo(chunk)]
             ELSE UNCHANGED <<hpc, pending>>
    /\ UNCHANGED <<recvVars, serverVars, backlog, cstate, outbuf,
                   sent, wrote, recvd, stopCalls, joinSet, harnessVars>>

\* HandlerReadEof with the end of one connection ending every handler.
HandlerReadEofEndsAll(c) ==
    /\ hpc[c] = "read"
    /\ cstate[c] = "closed"
    /\ inbuf[c] = <<>>
    /\ hpc' = [d \in Conns |-> IF hpc[d] \in {"read", "write"} THEN "ok" ELSE hpc[d]]
    /\ UNCHANGED <<recvVars, serverVars, netVars, pending, histVars, harnessVars>>

\* HandlerReadEof with the handler taking its own handle out of the collection.
HandlerReadEofDropsHandle(c) ==
    /\ hpc[c] = "read"
    /\ cstate[c] = "closed"
    /\ inbuf[c] = <<>>
    /\ hpc' = [hpc EXCEPT ![c] = "ok"]
    /\ workers' = SelectSeq(workers, LAMBDA w : w # c)
    /\ UNCHANGED <<recvVars, max_clients, is_running, runPc, joinPc, netVars, pending, histVars, harnessVars>>

\* read() returns Ok(0): the client has shut the connection down and every
\* byte it sent has been read; handle() returns Ok.
HandlerReadEof(c) ==
    /\ hpc[c] = "read"
    /\ cstate[c] = "closed"
    /\ inbuf[c] = <<>>
    /\ hpc' = [hpc EXCEPT ![c] = "ok"]
    /\ UNCHANGED <<recvVars, serverVars, netVars, pending, histVars, harnessVars>>

\* HandlerReadErr with the error reaching the accept loop, which stops.
HandlerReadErrStopsServer(c) ==
    /\ hpc[c] = "read"
    /\ cstate[c] = "reset"
    /\ hpc' = [hpc EXCEPT ![c] = "err"]
    /\ is_running' = FALSE
    /\ UNCHANGED <<recvVars, max_clients, workers, runPc, joinPc, netVars, pending, histVars, harnessVars>>

\* read() fails: handle() returns the error.
HandlerReadErr(c) ==
    /\ hpc[c] = "read"
    /\ cstate[c] = "reset"
    /\ hpc' = [hpc EXCEPT ![c] = "err"]
    /\ UNCHANGED <<recvVars, serverVars, netVars, pending, histVars, harnessVars>>

\* The other end of a mix-up between two connections.
OtherConn(c) == (c % MaxConns) + 1

\* HandlerWriteOk with the response written to another connection's stream.
HandlerWriteOkCross(c) ==
    /\ hpc[c] = "write"
    /\ cstate[c] \in {"open", "closed"} \/ pending[c] = <<>>
    /\ outbuf' = [outbuf EXCEPT ![OtherConn(c)] = @ \o pending[c]]
    /\ wrote' = [wrote EXCEPT ![OtherConn(c)] = Append(@, pending[c])]
    /\ hpc' = [hpc EXCEPT ![c] = "read"]
    /\ pending' = [pending EXCEPT ![c] = <<>>]
    /\ UNCHANGED <<recvVars, serverVars, backlog, cstate, inbuf,
                   sent, reads, recvd, stopCalls, joinSet, harnessVars>>

\* write_all and flush succeed.  write_all of an empty payload makes no
\* system call, so it succeeds whatever the state of the connection; bytes
\* written after the client has shut the connection down reach nobody.
HandlerWriteOk(c) ==
    /\ hpc[c] = "write"
    /\ cstate[c] \in {"open", "closed"} \/ pending[c] = <<>>
    /\ outbuf' = [outbuf EXCEPT ![c] = IF cstate[c] = "open" THEN @ \o pending[c] ELSE @]
    /\ wrote' = [wrote EXCEPT ![c] = Append(@, pending[c])]
    /\ hpc' = [hpc EXCEPT ![c] = "read"]
    /\ pending' = [pending EXCEPT ![c] = <<>>]
    /\ UNCHANGED <<recvVars, serverVars, backlog, cstate, inbuf,
                   sent, reads, recvd, stopCalls, joinSet, harnessVars>>

\* write_all or flush fails (the peer is gone): handle() returns the error.
HandlerWriteErr(c) ==
    /\ hpc[c] = "write"
    /\ pending[c] # <<>>
    /\ cstate[c] \in {"closed", "reset"}
    /\ hpc' = [hpc EXCEPT ![c] = "err"]
    /\ pending' = [pending EXCEPT ![c] = <<>>]
    /\ UNCHANGED <<recvVars, serverVars, netVars, histVars, harnessVars>>

(***************************************************************************)
(* Server (src/src/server.rs).                                             *)
(***************************************************************************)
\* RunCall with run() setting the flag true as it begins.
RunCallSetsFlag ==
    /\ runPc \in {"idle", "returned"}
    /\ joinPc = "idle"
    /\ runPc' = "check"
    /\ is_running' = TRUE
    /\ UNCHANGED <<recvVars, max_clients, workers, joinPc, netVars, handlerVars, histVars, harnessVars>>

\* run() begins: it clones the Arc of the flag and enters the loop.  run()
\* and join_workers() take &mut self, so neither begins while the other runs.
RunCall ==
    /\ runPc \in {"idle", "returned"}
    /\ joinPc = "idle"
    /\ runPc' = "check"
    /\ UNCHANGED <<recvVars, max_clients, is_running, workers, joinPc, netVars, handlerVars, histVars, harnessVars>>

\* RunLoop with accept() called whatever the flag is.
RunLoopAnyFlag ==
    /\ runPc = "check"
    /\ runPc' = "accept"
    /\ UNCHANGED <<recvVars, max_clients, is_running, workers, joinPc, netVars, handlerVars, histVars, harnessVars>>

\* The loop's condition finds the flag true: accept() is called.
RunLoop ==
    /\ runPc = "check"
    /\ is_running
    /\ runPc' = "accept"
    /\ UNCHANGED <<recvVars, max_clients, is_running, workers, joinPc, netVars, handlerVars, histVars, harnessVars>>

\* RunReturn with the loop going on although the flag is false.
RunReturnIgnoresFlag ==
    /\ runPc = "check"
    /\ ~is_running
    /\ runPc' = "accept"
    /\ UNCHANGED <<recvVars, max_clients, is_running, workers, joinPc, netVars, handlerVars, histVars, harnessVars>>

\* RunReturn with run() waiting for the handlers before it returns.
RunReturnWaits ==
    /\ runPc = "check"
    /\ ~is_running
    /\ \A i \in 1..Len(workers) : hpc[workers[i]] \in {"ok", "err"}
    /\ runPc' = "returned"
    /\ UNCHANGED <<recvVars, max_clients, is_running, workers, joinPc, netVars, handlerVars, histVars, harnessVars>>

\* The loop's condition finds the flag false: run() returns Ok.
RunReturn ==
    /\ runPc = "check"
    /\ ~is_running
    /\ runPc' = "returned"
    /\ UNCHANGED <<recvVars, max_clients, is_running, workers, joinPc, netVars, handlerVars, histVars, harnessVars>>

\* AcceptOk with max_clients enforced: no connection is accepted while as many
\* handlers as max_clients are running.
AcceptOkUpToMaxClients ==
    /\ runPc = "accept"
    /\ backlog # <<>>
    /\ Cardinality({c \in Conns : hpc[c] \in {"read", "write"}}) < max_clients
    /\ LET c == Head(backlog) IN
       /\ hpc' = [hpc EXCEPT ![c] = "read"]
       /\ workers' = Append(workers, c)
    /\ backlog' = Tail(backlog)
    /\ runPc' = "check"
    /\ UNCHANGED <<recvVars, max_clients, is_running, joinPc, cstate, inbuf, outbuf,
                   pending, histVars, harnessVars>>

\* AcceptOk with the handler spawned and its handle dropped instead of pushed.
AcceptOkNoPush ==
    /\ runPc = "accept"
    /\ backlog # <<>>
    /\ hpc' = [hpc EXCEPT ![Head(backlog)] = "read"]
    /\ backlog' = Tail(backlog)
    /\ runPc' = "check"
    /\ UNCHANGED <<recvVars, max_clients, is_running, workers, joinPc, cstate, inbuf, outbuf,
                   pending, histVars, harnessVars>>

\* accept() returns a connection: a handler thread is spawned for it and its
\* handle is pushed.
AcceptOk ==
    /\ runPc = "accept"
    /\ backlog # <<>>
    /\ LET c == Head(backlog) IN
       /\ hpc' = [hpc EXCEPT ![c] = "read"]
       /\ workers' = Append(workers, c)
    /\ backlog' = Tail(backlog)
    /\ runPc' = "check"
    /\ UNCHANGED <<recvVars, max_clients, is_running, joinPc, cstate, inbuf, outbuf, pending, histVars, harnessVars>>

\* accept() returns WouldBlock: sleep 100 ms, then the loop's condition.
AcceptWouldBlock ==
    /\ runPc = "accept"
    /\ runPc' = "check"
    /\ UNCHANGED <<recvVars, max_clients, is_running, workers, joinPc, netVars, handlerVars, histVars, harnessVars>>

\* AcceptError with the error ending run().
AcceptErrorEndsRun ==
    /\ runPc = "accept"
    /\ runPc' = "returned"
    /\ UNCHANGED <<recvVars, max_clients, is_running, workers, joinPc, netVars, handlerVars, histVars, harnessVars>>

\* accept() returns another error: it is logged, then the loop's condition.
AcceptError ==
    /\ runPc = "accept"
    /\ runPc' = "check"
    /\ UNCHANGED <<recvVars, max_clients, is_running, workers, joinPc, netVars, handlerVars, histVars, harnessVars>>

\* StopFlag with the flag flipped instead of cleared.
StopFlagToggle(flag) == ~flag

\* What stop() leaves in the flag, under the flag's lock.
StopFlag(flag) == FALSE

\* StopBody with stop() interrupting an accept() that is in progress.
StopBodyWakesAccept ==
    /\ stopCalls < MaxStops
    /\ is_running' = StopFlag(is_running)
    /\ stopCalls' = stopCalls + 1
    /\ runPc' = IF runPc = "accept" THEN "returned" ELSE runPc
    /\ UNCHANGED <<recvVars, max_clients, workers, joinPc, netVars, handlerVars,
                   sent, reads, wrote, recvd, joinSet>>

\* stop(): lock the flag; if it is true set it false, else only warn.
StopBody ==
    /\ stopCalls < MaxStops
    /\ is_running' = StopFlag(is_running)
    /\ stopCalls' = stopCalls + 1
    /\ UNCHANGED <<recvVars, max_clients, workers, runPc, joinPc, netVars, handlerVars,
                   sent, reads, wrote, recvd, joinSet>>

Stop == StopBody /\ UNCHANGED harnessVars

\* join_workers() begins to drain the handles.
JoinCall ==
    /\ joinPc = "idle"
    /\ runPc \in {"idle", "returned"}
    /\ joinPc' = "joining"
    /\ joinSet' = {workers[i] : i \in 1..Len(workers)}
    /\ UNCHANGED <<recvVars, max_clients, is_running, workers, runPc, netVars, handlerVars,
                   sent, reads, wrote, recvd, stopCalls, harnessVars>>

\* Joinable with join() not waiting for the thread.
JoinableAlways(c) == TRUE

\* Whether worker.join() on the handle of connection c returns.
Joinable(c) == hpc[c] \in Done

\* join() of the next handle returns, its thread having ended (with Ok or
\* with an error, which the thread itself logged).
JoinOne ==
    /\ joinPc = "joining"
    /\ workers # <<>>
    /\ Joinable(Head(workers))
    /\ workers' = Tail(workers)
    /\ UNCHANGED <<recvVars, max_clients, is_running, runPc, joinPc, netVars, handlerVars, histVars, harnessVars>>

\* Every handle is drained: join_workers() returns.
JoinReturn ==
    /\ joinPc = "joining"
    /\ workers = <<>>
    /\ joinPc' = "idle"
    /\ joinSet' = {}
    /\ UNCHANGED <<recvVars, max_clients, is_running, workers, runPc, netVars, handlerVars,
                   sent, reads, wrote, recvd, stopCalls, harnessVars>>

ClientStep ==
    \E c \in Conns :
        \/ ClientConnect(c)
        \/ ClientSend(c)
        \/ PeerSendRaw(c)
        \/ ClientRecv(c)
        \/ ClientDisconnect(c)
        \/ ConnReset(c)

HandlerStep ==
    \E c \in Conns :
        \/ HandlerReadData(c)
        \/ HandlerReadEof(c)
        \/ HandlerReadErr(c)
        \/ HandlerWriteOk(c)
        \/ HandlerWriteErr(c)

RunStep == RunLoop \/ RunReturn \/ AcceptOk \/ AcceptWouldBlock \/ AcceptError

Next ==
    \/ ClientStep
    \/ HandlerStep
    \/ RunCall
    \/ RunStep
    \/ Stop
    \/ JoinCall
    \/ JoinOne
    \/ JoinReturn

\* The server with callers that may call stop() while run() is in its loop.
Spec == Init /\ [][Next]_vars


\* The server's lifecycle with connections that carry no data.
LifecycleNext ==
    \/ \E c \in Conns :
          \/ ClientConnect(c)
          \/ ClientDisconnect(c)
          \/ ConnReset(c)
          \/ HandlerReadEof(c)
          \/ HandlerReadErr(c)
    \/ RunCall
    \/ RunStep
    \/ Stop
    \/ JoinCall
    \/ JoinOne
    \/ JoinReturn

\* The lifecycle with the thread that runs run() scheduled: when the loop's
\* condition can find the flag false, it does.
FairSpec == Init /\ [][LifecycleNext]_vars /\ WF_vars(RunReturn)

(***************************************************************************)
(* The harness of src/tests/client_test.rs: the server is shared as        *)
(* Arc<Mutex<Server>>; the server thread locks it and calls run() with the *)
(* guard held; the test thread drives one client and then stops the server *)
(* through the same mutex and joins the server thread.                     *)
(***************************************************************************)
HarnessInit ==
    /\ max_clients = TestMaxClients
    /\ ServerNew
    /\ NoTraffic
    /\ guard = "none"
    /\ spc = "start"
    /\ tpc = "start"
    /\ RecvNew

\* setup_server_thread: server.lock().unwrap(), then server.run().
ServerThreadLock ==
    /\ spc = "start"
    /\ guard = "none"
    /\ guard' = "server"
    /\ spc' = "running"
    /\ runPc' = "check"
    /\ UNCHANGED <<recvVars, max_clients, is_running, workers, joinPc, netVars, handlerVars, histVars, tpc>>

\* run() has returned: the closure ends, the guard is dropped, the thread ends.
ServerThreadExit ==
    /\ spc = "running"
    /\ runPc = "returned"
    /\ guard' = "none"
    /\ spc' = "done"
    /\ UNCHANGED <<recvVars, serverVars, netVars, handlerVars, histVars, tpc>>

\* client.connect()
TestConnect ==
    /\ tpc = "start"
    /\ cstate[1] = "new"
    /\ cstate' = [cstate EXCEPT ![1] = "open"]
    /\ backlog' = Append(backlog, 1)
    /\ tpc' = "connected"
    /\ UNCHANGED <<recvVars, serverVars, inbuf, outbuf, handlerVars, histVars, guard, spc>>

\* client.send(message)
TestSend ==
    /\ tpc \in {"connected", "received"}
    /\ TotalSent < MaxSends
    /\ \E m \in ClientMessages :
        /\ inbuf' = [inbuf EXCEPT ![1] = @ \o WireBytes(m)]
        /\ sent' = [sent EXCEPT ![1] = Append(@, m)]
    /\ tpc' = "sent"
    /\ UNCHANGED <<recvVars, serverVars, backlog, cstate, outbuf, handlerVars,
                   reads, wrote, recvd, stopCalls, joinSet, guard, spc>>

\* client.receive_with_retry returns what a read decoded to (the test asserts
\* that it is Ok).
TestReceive ==
    /\ tpc = "sent"
    /\ outbuf[1] # <<>>
    /\ LET n == Min(BufSize, Len(outbuf[1])) IN
       /\ recvd' = [recvd EXCEPT ![1] = Append(@, DecodeServerMessage(Take(outbuf[1], n)))]
       /\ outbuf' = [outbuf EXCEPT ![1] = Drop(@, n)]
    /\ tpc' = "received"
    /\ UNCHANGED <<recvVars, serverVars, backlog, cstate, inbuf, handlerVars,
                   sent, reads, wrote, stopCalls, joinSet, guard, spc>>

\* client.receive_with_retry runs out of attempts with nothing to read: the
\* test's assertion fails, and the panic drops the client and its stream.
TestReceiveTimeout ==
    /\ tpc = "sent"
    /\ outbuf[1] = <<>>
    /\ tpc' = "panicked"
    /\ cstate' = [cstate EXCEPT ![1] = IF @ = "open" THEN "closed" ELSE @]
    /\ UNCHANGED <<recvVars, serverVars, backlog, inbuf, outbuf, handlerVars, histVars, guard, spc>>

\* client.disconnect()
TestDisconnect ==
    /\ tpc = "received"
    /\ cstate' = [cstate EXCEPT ![1] = "closed"]
    /\ outbuf' = [outbuf EXCEPT ![1] = <<>>]
    /\ tpc' = "stop"
    /\ UNCHANGED <<recvVars, serverVars, backlog, inbuf, handlerVars, histVars, guard, spc>>

\* A test that stops the server without having used a client.
TestNoClient ==
    /\ tpc = "start"
    /\ tpc' = "stop"
    /\ UNCHANGED <<recvVars, serverVars, netVars, handlerVars, histVars, guard, spc>>

\* server.lock().unwrap() of the test thread returns the guard.
TestLock ==
    /\ tpc = "stop"
    /\ guard = "none"
    /\ guard' = "test"
    /\ tpc' = "locked"
    /\ UNCHANGED <<recvVars, serverVars, netVars, handlerVars, histVars, spc>>

\* .stop() under the guard, which is dropped at the end of the statement.
TestStop ==
    /\ tpc = "locked"
    /\ StopBody
    /\ guard' = "none"
    /\ tpc' = "join"
    /\ UNCHANGED spc

\* handle.join() returns: the server thread has ended.
TestJoin ==
    /\ tpc = "join"
    /\ spc = "done"
    /\ tpc' = "done"
    /\ UNCHANGED <<recvVars, serverVars, netVars, handlerVars, histVars, guard, spc>>

ServerThreadStep == ServerThreadLock \/ RunStep \/ ServerThreadExit

TestThreadStep ==
    \/ TestConnect
    \/ TestSend
    \/ TestReceive
    \/ TestReceiveTimeout
    \/ TestDisconnect
    \/ TestNoClient
    \/ TestLock
    \/ TestStop
    \/ TestJoin

HarnessNext ==
    \/ ServerThreadStep
    \/ TestThreadStep
    \/ HandlerStep
    \/ \E c \in Conns : ConnReset(c)

\* The harness, its threads scheduled: a thread that can take a step of its
\* own (one that does not wait for the network) takes it.
HarnessSpec ==
    /\ HarnessInit
    /\ [][HarnessNext]_vars
    /\ WF_vars(ServerThreadLock \/ RunLoop \/ RunReturn \/ AcceptOk \/ ServerThreadExit)
    /\ WF_vars(TestLock \/ TestStop \/ TestJoin)
    /\ WF_vars(HandlerStep)


(***************************************************************************)
(* The claims.                                                             *)
(***************************************************************************)
\* The handler of connection c has dealt with everything the client sent:
\* it waits in read() and no byte is in flight to it.
Handled(c) == hpc[c] = "read" /\ inbuf[c] = <<>> /\ cstate[c] = "open"

\* C1: an EchoMessage{content = s} sent on an established connection is
\* answered, and the answer is EchoMessage{content = s}: once the handler has
\* dealt with the only message of a connection, an echo, it has written
\* bytes that the client decodes as EchoMessage{content = s}, and what the
\* client has received is that message.
C1_EchoIsAnswered ==
    \A c \in Conns :
        (Len(sent[c]) = 1 /\ sent[c][1].kind = "Echo" /\ Handled(c))
        => /\ Len(wrote[c]) = 1
           /\ wrote[c][1] # <<>>
           /\ DecodeServerMessage(wrote[c][1]) = EchoResponse(sent[c][1].content)
           /\ recvd[c] \in {<<>>, <<EchoResponse(sent[c][1].content)>>}

\* C2: an AddRequest{a, b} sent on an established connection is answered
\* with AddResponse{result = a + b}: once the handler has dealt with the only
\* message of a connection, an AddRequest, it has written bytes that the
\* client decodes as AddResponse{a + b}.
C2_AddIsAnswered ==
    \A c \in Conns :
        (Len(sent[c]) = 1 /\ sent[c][1].kind = "Add" /\ Handled(c))
        => /\ Len(wrote[c]) = 1
           /\ DecodeServerMessage(wrote[c][1])
                = AddResponse(sent[c][1].a + sent[c][1].b)

\* The connection is at rest: everything sent has been dealt with and
\* everything written has been received.
AtRest(c) == Handled(c) /\ outbuf[c] = <<>>

\* C3: N echo messages sent one after another on a connection yield exactly
\* N responses, the i-th carrying the content of the i-th message: when the
\* connection is at rest, what the client received is the list of the echoes
\* of what it sent.
C3_EchoesInOrder ==
    \A c \in Conns :
        ((\A i \in 1..Len(sent[c]) : sent[c][i].kind = "Echo") /\ AtRest(c))
        => recvd[c] = [i \in 1..Len(sent[c]) |-> EchoResponse(sent[c][i].content)]

\* The payload that echoes the message the bytes of chunk decode to.
IsEchoOf(payload, chunk) ==
    /\ DecodeEchoMessage(chunk).ok
    /\ payload = EncodeEchoMessage(DecodeEchoMessage(chunk).content)

\* C4: with several clients connected and their requests interleaved, every
\* response written to a connection is the echo of a request read from that
\* same connection (the i-th response answers the i-th read that decoded),
\* each byte in flight to a client comes from those responses, and a client
\* that sends only echo messages never receives a content it did not send.
C4_NoCrossTalk ==
    \A c \in Conns :
        LET decodable == SelectSeq(reads[c], LAMBDA ch : DecodeEchoMessage(ch).ok) IN
        /\ Len(wrote[c]) <= Len(decodable)
        /\ \A i \in 1..Len(wrote[c]) : IsEchoOf(wrote[c][i], decodable[i])
        /\ outbuf[c] # <<>> => wrote[c] # <<>>
        /\ (\A i \in 1..Len(sent[c]) : sent[c][i].kind = "Echo")
           => \A j \in 1..Len(recvd[c]) :
                 /\ recvd[c][j].kind = "Echo"
                 /\ \E i \in 1..Len(sent[c]) : sent[c][i].content = recvd[c][j].content

\* C4's case: two clients have each received the echo of their own content,
\* and the two contents differ.
C4_Witness ==
    /\ Len(recvd[1]) = 1 /\ Len(recvd[2]) = 1
    /\ recvd[1][1] = EchoResponse(sent[1][1].content)
    /\ recvd[2][1] = EchoResponse(sent[2][1].content)
    /\ recvd[1][1] # recvd[2][1]

\* C5: when the read of a handler returns zero bytes (its client has shut
\* the connection down and nothing is left to read), that handler returns Ok
\* and the step changes nothing else: the other connections, their handlers,
\* the accept loop, the flag and the handles are as before.
C5_DisconnectIsLocal ==
    [][\A c \in Conns :
          (hpc[c] = "read" /\ cstate[c] = "closed" /\ inbuf[c] = <<>> /\ hpc'[c] # hpc[c])
          => /\ hpc'[c] = "ok"
             /\ \A d \in Conns \ {c} : hpc'[d] = hpc[d]
             /\ UNCHANGED <<serverVars, netVars, pending, histVars>>]_vars

\* C5's case: the handler of connection 1 has returned Ok after its client
\* left, while the accept loop runs and the handler of connection 2 is
\* answering a request.
C5_Witness ==
    /\ hpc[1] = "ok"
    /\ hpc[2] = "write"
    /\ cstate[2] = "open"
    /\ runPc = "accept"

\* C6: once stop() has set the flag false and the accept event has brought
\* run() back to its loop's condition, run() eventually returns Ok.
C6_StopLeadsToReturn == (runPc = "check" /\ ~is_running) ~> (runPc = "returned")

\* C6's case: stop() was called on a running server without connections and
\* run() is back at its loop's condition.
C6_Witness ==
    /\ runPc = "check"
    /\ ~is_running
    /\ stopCalls = 1
    /\ workers = <<>>
    /\ \A c \in Conns : cstate[c] = "new"

\* C7: a call of stop() leaves the flag false; a call that finds the flag
\* false changes nothing (but the count of calls), and no call changes
\* anything but the flag.
C7_StopIdempotent ==
    [][stopCalls' # stopCalls
       => /\ is_running' = FALSE
          /\ UNCHANGED <<max_clients, workers, runPc, joinPc, netVars, handlerVars,
                         sent, reads, wrote, recvd, joinSet>>]_vars

\* C7's case: stop() has been called twice.
C7_Witness == stopCalls = 2 /\ ~is_running

\* C8: when the bytes of a read do not decode, the handler writes nothing
\* for them and goes on; a valid message sent afterwards on the connection is
\* answered with its echo: once the handler has dealt with malformed bytes
\* and then, in a read of its own, with an echo message, it has written one
\* response, which the client decodes as that echo.
C8_ValidAfterMalformedIsEchoed ==
    \A c \in Conns :
        (/\ Len(sent[c]) = 2
         /\ sent[c][1].kind = "Raw"
         /\ sent[c][2].kind = "Echo"
         /\ Len(reads[c]) = 2
         /\ Handled(c))
        => /\ Len(wrote[c]) = 1
           /\ DecodeServerMessage(wrote[c][1]) = EchoResponse(sent[c][2].content)

\* C9: join_workers() returns only when every handler whose handle was
\* retained at its call has ended and its client is no longer connected, and
\* it leaves no handle retained.
C9_JoinDrains ==
    [][(joinPc = "joining" /\ joinPc' = "idle")
       => /\ workers' = <<>>
          /\ \A c \in joinSet : hpc[c] \in Done /\ cstate[c] # "open"]_vars

\* C9's case: join_workers() has drained two handles, the first of a handler
\* that ended with an error, and is about to return.
C9_Witness ==
    /\ joinPc = "joining"
    /\ workers = <<>>
    /\ joinSet = {1, 2}
    /\ hpc[1] = "err"
    /\ hpc[2] = "ok"

\* C10: in the harness, once the client has been answered and has
\* disconnected, the test's stop() through the shared mutex and its join of
\* the server thread complete.
C10_HarnessStopCompletes ==
    (tpc = "stop" /\ recvd[1] # <<>> /\ cstate[1] = "closed") ~> (tpc = "done")

\* C11: a failed read, or a failed write or flush, on one connection ends the
\* handler of that connection with an error and changes nothing else: the
\* accept loop, the flag and the handles are as before, and so are the other
\* connections and their handlers.
C11_IoErrorIsLocal ==
    [][\A c \in Conns :
          (\/ hpc[c] = "read" /\ cstate[c] = "reset" /\ hpc'[c] # hpc[c]
           \/ hpc[c] = "write" /\ hpc'[c] = "err")
          => /\ hpc'[c] = "err"
             /\ \A d \in Conns \ {c} : hpc'[d] = hpc[d] /\ pending'[d] = pending[d]
             /\ UNCHANGED <<serverVars, netVars, histVars>>]_vars

\* C11's case: the handler of connection 1 has ended with an error while run()
\* waits in accept() with the flag true and the handler of connection 2 is
\* answering a request.
C11_Witness ==
    /\ hpc[1] = "err"
    /\ hpc[2] = "write"
    /\ cstate[2] = "open"
    /\ runPc = "accept"
    /\ is_running

\* C12: stop() neither ends nor signals a handler; a connection accepted
\* before stop() has its echo requests answered after stop() and after run()
\* has returned: when the flag is false, run() has returned and a handler is
\* about to write the response to the only message of its connection, an
\* echo, the response is bytes that the client decodes as that echo.
C12_AnsweredAfterStop ==
    \A c \in Conns :
        (/\ ~is_running
         /\ runPc = "returned"
         /\ hpc[c] = "write"
         /\ Len(sent[c]) = 1
         /\ sent[c][1].kind = "Echo")
        => /\ pending[c] # <<>>
           /\ DecodeServerMessage(pending[c]) = EchoResponse(sent[c][1].content)

\* The clients that connect before run() is called: the listener is bound
\* since Server::new, so the connection is established and waits in its queue.
EarlyConnect(c) == runPc = "idle" /\ ClientConnect(c)

EarlyNext ==
    \/ \E c \in Conns :
          \/ EarlyConnect(c)
          \/ ClientSend(c)
          \/ PeerSendRaw(c)
          \/ ClientRecv(c)
          \/ ClientDisconnect(c)
          \/ ConnReset(c)
    \/ HandlerStep
    \/ RunCall
    \/ RunStep
    \/ Stop
    \/ JoinCall
    \/ JoinOne
    \/ JoinReturn

\* The server with clients that all connect before run() is called.
EarlySpec == Init /\ [][EarlyNext]_vars

\* C13: a client that connects after Server::new and before run() is called
\* is not lost: it waits in the listener's queue or has a handler, and once
\* its handler has dealt with its only message, an echo, it has written one
\* response, which the client decodes as that echo.
C13_EarlyConnectionIsServed ==
    \A c \in Conns :
        cstate[c] # "new"
        => /\ (\E i \in 1..Len(backlog) : backlog[i] = c) \/ hpc[c] # "none"
           /\ (Len(sent[c]) = 1 /\ sent[c][1].kind = "Echo" /\ Handled(c))
              => /\ Len(wrote[c]) = 1
                 /\ wrote[c][1] # <<>>
                 /\ DecodeServerMessage(wrote[c][1])
                      = EchoResponse(sent[c][1].content)

\* The reads of connection c that decoded, each of which is owed a response.
Decoded(c) == SelectSeq(reads[c], LAMBDA ch : DecodeEchoMessage(ch).ok)

\* C14: within a connection the handler is sequential: a read is made only
\* when the handler is at its read with nothing left to write and the
\* response to every message decoded before has been written, so that at
\* most one decoded message is without its response.
C14_HandlerIsSequential ==
    [][\A c \in Conns :
          /\ reads'[c] # reads[c]
             => /\ hpc[c] = "read"
                /\ pending[c] = <<>>
                /\ Len(wrote[c]) = Len(Decoded(c))
          /\ Len(Decoded(c)) <= Len(wrote[c]) + 1]_vars

\* C14's case: the handler has read a second message, after the response to
\* the first was written, and is about to answer it.
C14_Witness ==
    /\ Len(reads[1]) = 2
    /\ Len(wrote[1]) = 1
    /\ wrote[1][1] # <<>>
    /\ hpc[1] = "write"
    /\ pending[1] # <<>>

Accepted == Cardinality({c \in Conns : hpc[c] # "none"})

\* C16: once the flag is false, at most one further connection is accepted,
\* and a connection accepted with the flag false gets its handler and its
\* handle is pushed like any other.
C16_AtMostOneAcceptAfterStop ==
    /\ \A n \in 0..MaxConns :
          []((~is_running /\ Accepted = n) => [](Accepted <= n + 1))
    /\ [][\A c \in Conns :
             (~is_running /\ hpc[c] = "none" /\ hpc'[c] # "none")
             => /\ runPc = "accept"
                /\ hpc'[c] = "read"
                /\ workers' = Append(workers, c)]_vars

\* C16's case: stop() has set the flag false while run() is in accept() and
\* two connections wait in the listener's queue.
C16_Witness ==
    /\ ~is_running
    /\ runPc = "accept"
    /\ backlog = <<1, 2>>

\* C17: the flag is true from construction until stop() is called; a step
\* changes it only from true
\* to false and only as a call of stop(); and from a state with the flag
\* false in which run() is not running, run() never again reaches accept()
\* and no connection is accepted: a run() called after stop() can only
\* find the flag false and return.
C17_FlagIsMonotone ==
    /\ [](stopCalls = 0 => is_running)
    /\ [][is_running' # is_running
          => (is_running /\ ~is_running' /\ stopCalls' = stopCalls + 1)]_vars
    /\ [][(~is_running /\ runPc = "check" /\ runPc' # runPc)
          => runPc' = "returned"]_vars
    /\ \A n \in 0..MaxConns :
          []((~is_running /\ runPc \in {"idle", "returned"} /\ Accepted = n)
             => [](runPc # "accept" /\ Accepted = n))

\* C17's case: run() was called with the flag false and has returned, with a
\* connection waiting in the listener's queue that it did not accept.
C17_Witness ==
    /\ ~is_running
    /\ runPc = "returned"
    /\ stopCalls = 1
    /\ backlog = <<1>>
    /\ workers = <<>>
    /\ hpc[1] = "none"

\* C18: an accept() that returns without a connection (would-block or another
\* error: run() leaves accept() and the listener's queue is as before) takes
\* run() to the loop's condition and changes nothing else: no handler is
\* spawned, the handles and the flag are as before, and run() does not
\* return; at the condition, with the flag true, accept() is called again.
C18_AcceptFailureIsNotFatal ==
    /\ [][(runPc = "accept" /\ runPc' # "accept" /\ backlog' = backlog)
          => /\ runPc' = "check"
             /\ UNCHANGED <<max_clients, is_running, workers, joinPc, netVars,
                            handlerVars, histVars>>]_vars
    /\ []((runPc = "check" /\ is_running) => ENABLED RunLoop)

\* C18's case: run() is in accept() with the flag true, every client of the
\* model has been accepted and none waits: accept() can only fail.
C18_Witness ==
    /\ runPc = "accept"
    /\ is_running
    /\ backlog = <<>>
    /\ Len(workers) = MaxConns
    /\ \A c \in Conns : hpc[c] = "read"

\* C19: run() returns without waiting for the handlers: at the loop's
\* condition with the flag false its return is possible whatever the
\* handlers do, the step of its return changes no handler and no handle, and
\* a handle leaves the collection only in join_workers().
C19_RunReturnsWithoutWaiting ==
    /\ []((runPc = "check" /\ ~is_running) => ENABLED RunReturn)
    /\ [][(runPc # "returned" /\ runPc' = "returned")
          => UNCHANGED <<max_clients, workers, handlerVars, netVars>>]_vars
    /\ [][Len(workers') < Len(workers)
          => (joinPc = "joining" /\ workers' = Tail(workers))]_vars

\* C19's case: run() has returned while the handler of connection 1 is
\* answering a request of its connected client; its handle is retained and
\* join_workers() has not been called.
C19_Witness ==
    /\ runPc = "returned"
    /\ joinPc = "idle"
    /\ workers = <<1>>
    /\ hpc[1] = "write"
    /\ cstate[1] = "open"

\* C20: a step of the handler of a connection (its position, its pending
\* payload, its reads or its writes change) leaves the flag, the handles,
\* the accept loop, the listener's queue and everything of the other
\* connections as they were; the flag changes only in a call of stop(), and
\* the handles change only by the push of run() after an accept and by the
\* drain of join_workers().
C20_HandlerFrame ==
    /\ [][\A c \in Conns :
             (/\ hpc[c] \in {"read", "write"}
              /\ \/ hpc'[c] # hpc[c]
                 \/ pending'[c] # pending[c]
                 \/ reads'[c] # reads[c]
                 \/ wrote'[c] # wrote[c])
             => /\ UNCHANGED <<max_clients, is_running, workers, runPc, joinPc, backlog, cstate>>
                /\ \A d \in Conns \ {c} :
                      /\ inbuf'[d] = inbuf[d]
                      /\ outbuf'[d] = outbuf[d]
                      /\ hpc'[d] = hpc[d]
                      /\ pending'[d] = pending[d]
                      /\ reads'[d] = reads[d]
                      /\ wrote'[d] = wrote[d]]_vars
    /\ [][is_running' # is_running => stopCalls' # stopCalls]_vars
    /\ [][workers' # workers
          => \/ runPc = "accept" /\ backlog # <<>>
                /\ workers' = Append(workers, Head(backlog))
             \/ joinPc = "joining" /\ workers' = Tail(workers)]_vars

\* C20's case: the handler of connection 1 has read a request and written
\* its response while the handler of connection 2 has a request waiting,
\* both handles are retained and the flag is true.
C20_Witness ==
    /\ workers = <<1, 2>>
    /\ is_running
    /\ Len(wrote[1]) = 1
    /\ wrote[1][1] # <<>>
    /\ hpc[2] = "read"
    /\ inbuf[2] # <<>>
    /\ wrote[2] = <<>>

\* The connections whose handles are retained.
Retained == {workers[i] : i \in 1..Len(workers)}

\* C21: the retained handles count the connections accepted since
\* construction or since the last join_workers().  Each handle is retained
\* once and is the handle of a spawned handler; the handler of every accepted
\* connection is retained until join_workers() has joined it, ended or not
\* (before the first join_workers() the handles are as many as the accepted
\* connections); outside join_workers() the number of handles grows exactly
\* with the number of accepted connections; join_workers() accepts nothing,
\* takes out only handles of ended handlers and returns with none retained.
C21_HandlesCountAccepted ==
    /\ [](/\ Cardinality(Retained) = Len(workers)
          /\ \A c \in Retained : hpc[c] # "none"
          /\ \A c \in Conns : hpc[c] \in {"read", "write"} => c \in Retained
          /\ (\A c \in Conns : hpc[c] \notin Done) => Len(workers) = Accepted)
    /\ [][IF joinPc = "joining"
          THEN /\ Accepted' = Accepted
               /\ \A c \in Retained : c \notin Retained' => hpc[c] \in Done
               /\ joinPc' = "idle" => workers' = <<>>
          ELSE Len(workers') + Accepted = Len(workers) + Accepted']_vars

\* C21's case: two connections were accepted, the handler of the first has
\* ended and the other serves its client; both handles are retained and
\* join_workers() has not begun.
C21_Witness ==
    /\ workers = <<1, 2>>
    /\ joinPc = "idle"
    /\ hpc[1] = "ok"
    /\ hpc[2] = "read"
    /\ cstate[2] = "open"

\* Server::new(addr, max_clients) with any small max_clients.
LimitInit ==
    /\ max_clients \in 0..MaxConns
    /\ ServerNew
    /\ NoTraffic
    /\ guard = "none"
    /\ spc = "off"
    /\ tpc = "off"
    /\ RecvNew

\* The server's lifecycle, constructed with any small max_clients.
LimitSpec == LimitInit /\ [][LifecycleNext]_vars

\* The handlers that are running.
ActiveHandlers == {c \in Conns : hpc[c] \in {"read", "write"}}

RxOk(m) == [kind |-> "Ok", msg |-> m]

\* Err(io::Error) of kind k
RxErr(k) == [kind |-> k, msg |-> NoMessage]

\* What a read can return as data: the echoes of "A", "B" and "", an
\* AddResponse{result: 30}, and bytes that are no ServerMessage.
RxPayloads ==
    {<<10, 3, 10, 1, 65>>, <<10, 3, 10, 1, 66>>, <<10, 0>>, <<18, 2, 8, 30>>,
     <<10, 5, 65>>}

\* ServerMessage::decode(..).map_err(..): the message, or InvalidData.
RxDecode(bs) ==
    IF DecodeServerMessage(bs).ok THEN RxOk(DecodeServerMessage(bs))
    ELSE RxErr("InvalidData")

\* Client::connect succeeds: the stream is saved.
RxConnect ==
    /\ rxPc \in {"idle", "done"}
    /\ rxStream = "none"
    /\ rxStream' = "some"
    /\ rxPc' = "idle"
    /\ rxResult' = RxNone
    /\ UNCHANGED <<rxRetries, rxAttempts, rxErrs, rxLast, rxData, rxCalls>>
    /\ UNCHANGED <<serverVars, netVars, handlerVars, histVars, harnessVars>>

\* Client::disconnect: the stream is taken out and shut down.
RxDisconnect ==
    /\ rxPc \in {"idle", "done"}
    /\ rxStream = "some"
    /\ rxStream' = "none"
    /\ rxPc' = "idle"
    /\ rxResult' = RxNone
    /\ UNCHANGED <<rxRetries, rxAttempts, rxErrs, rxLast, rxData, rxCalls>>
    /\ UNCHANGED <<serverVars, netVars, handlerVars, histVars, harnessVars>>

\* receive_with_retry(retries) is called: without a stream it returns
\* NotConnected; with one it sets the read timeout (30 s, which the socket
\* accepts) and enters the loop.
RxCall ==
    /\ rxPc \in {"idle", "done"}
    /\ rxCalls < MaxCalls
    /\ rxCalls' = rxCalls + 1
    /\ \E r \in 0..MaxRetries : rxRetries' = r
    /\ rxAttempts' = 0
    /\ rxErrs' = 0
    /\ rxLast' = "none"
    /\ rxData' = <<>>
    /\ IF rxStream = "none"
       THEN rxPc' = "done" /\ rxResult' = RxErr("NotConnected")
       ELSE rxPc' = "loop" /\ rxResult' = RxNone
    /\ UNCHANGED rxStream
    /\ UNCHANGED <<serverVars, netVars, handlerVars, histVars, harnessVars>>

\* An attempt whose read fails: the error is logged, the call sleeps 2 s and
\* goes on to the next attempt.
RxReadErr ==
    /\ rxPc = "loop"
    /\ rxAttempts < rxRetries
    /\ rxAttempts' = rxAttempts + 1
    /\ rxErrs' = rxErrs + 1
    /\ rxLast' = "err"
    /\ UNCHANGED <<rxStream, rxPc, rxRetries, rxData, rxResult, rxCalls>>
    /\ UNCHANGED <<serverVars, netVars, handlerVars, histVars, harnessVars>>

\* RxReadZero with a zero-byte read taken for a failed attempt.
RxReadZeroRetries ==
    /\ rxPc = "loop"
    /\ rxAttempts < rxRetries
    /\ rxAttempts' = rxAttempts + 1
    /\ rxLast' = "zero"
    /\ UNCHANGED <<rxStream, rxPc, rxRetries, rxErrs, rxData, rxResult, rxCalls>>
    /\ UNCHANGED <<serverVars, netVars, handlerVars, histVars, harnessVars>>

\* An attempt whose read returns zero bytes: the call returns
\* ConnectionAborted.
RxReadZero ==
    /\ rxPc = "loop"
    /\ rxAttempts < rxRetries
    /\ rxAttempts' = rxAttempts + 1
    /\ rxLast' = "zero"
    /\ rxPc' = "done"
    /\ rxResult' = RxErr("ConnectionAborted")
    /\ UNCHANGED <<rxStream, rxRetries, rxErrs, rxData, rxCalls>>
    /\ UNCHANGED <<serverVars, netVars, handlerVars, histVars, harnessVars>>

\* An attempt whose read returns data: the call returns what the bytes
\* decode to.
RxReadData ==
    /\ rxPc = "loop"
    /\ rxAttempts < rxRetries
    /\ rxAttempts' = rxAttempts + 1
    /\ rxLast' = "data"
    /\ \E bs \in RxPayloads :
          /\ rxData' = bs
          /\ rxResult' = RxDecode(bs)
    /\ rxPc' = "done"
    /\ UNCHANGED <<rxStream, rxRetries, rxErrs, rxCalls>>
    /\ UNCHANGED <<serverVars, netVars, handlerVars, histVars, harnessVars>>

\* The loop has made its retries attempts: the call returns TimedOut.
RxTimedOut ==
    /\ rxPc = "loop"
    /\ rxAttempts = rxRetries
    /\ rxPc' = "done"
    /\ rxResult' = RxErr("TimedOut")
    /\ UNCHANGED <<rxStream, rxRetries, rxAttempts, rxErrs, rxLast, rxData, rxCalls>>
    /\ UNCHANGED <<serverVars, netVars, handlerVars, histVars, harnessVars>>

RecvNext ==
    \/ RxConnect
    \/ RxDisconnect
    \/ RxCall
    \/ RxReadErr
    \/ RxReadZero
    \/ RxReadData
    \/ RxTimedOut

\* The test client alone: its calls of connect, disconnect and
\* receive_with_retry, with every outcome of every read.
RecvSpec == Init /\ [][RecvNext]_vars

\* What the claim says of a call that has returned: at most retries reads
\* were made, all but the last of them failed, a last read with data gives
\* its decode result, a last read of zero bytes gives ConnectionAborted, and
\* the result is TimedOut exactly when retries reads failed.
RxReturnIsRight ==
    /\ rxAttempts <= rxRetries
    /\ rxErrs = (IF rxLast \in {"zero", "data"} THEN rxAttempts - 1 ELSE rxAttempts)
    /\ rxLast = "data" => rxResult = RxDecode(rxData)
    /\ rxLast = "zero" => rxResult = RxErr("ConnectionAborted")
    /\ rxResult \in {RxDecode(bs) : bs \in RxPayloads}
       => (rxLast = "data" /\ rxData \in RxPayloads)
    /\ rxResult = RxErr("ConnectionAborted") => rxLast = "zero"
    /\ rxResult = RxErr("TimedOut") <=> rxErrs = rxRetries

=============================================================================
